---- MODULE Spec2Model ----
(***************************************************************************)
(* docling_ui.py: one press of the convert button in main(), followed file *)
(* by file through staging, run_docling_command, cleanup, progress and     *)
(* reporting, and then through the download section.                       *)
(*                                                                         *)
(* A file name is a sequence of tokens.  "_" and "." are tokens of their   *)
(* own, every other token is a non-empty run of characters holding neither *)
(* of them, so str.split('_', 1), Path.stem and glob patterns act on the   *)
(* tokens exactly as they act on the characters.  A path below the output  *)
(* directory is a sequence of names: <<name>> for an entry of the output   *)
(* directory, <<dir, child>> for a file inside a directory entry.          *)
(*                                                                         *)
(* The environment is the uploaded batch, the widgets' values, the state   *)
(* of the output directory, the random part of the staging name, what the  *)
(* external tool does and returns, and which faults strike: mkdir of the   *)
(* output directory, the is_dir/glob probe, launching the process and      *)
(* opening an artifact for download.                                       *)
(***************************************************************************)
EXTENDS Integers, Sequences, FiniteSets, TLC

\* Largest number of uploaded files in a batch.
MaxBatch == 2

VARIABLES
    uploaded_files,   \* the batch: sequence of original file names
    output_formats,   \* the multiselect's value, in selection order
    use_ocr,          \* the checkbox
    pc,               \* position in main()
    i,                \* 1-based position in the batch (enumerate's i + 1)
    tmp_path,         \* staging name of the current file, <<>> when none
    tmpFiles,         \* staging files that exist in the temporary directory
    outDirExists,     \* the output directory exists
    outDirCreatable,  \* mkdir of the output directory would succeed
    fs,               \* entries of the output directory: name -> entry
    cmd,              \* argument vector built by run_docling_command
    output_files,     \* run_docling_command's list of expected artifacts
    result,           \* what subprocess.run did for the current file
    ret,              \* run_docling_command's return value
    invoked,          \* history: batch positions handed to subprocess.run
    outcomes,         \* history: one record per returned invocation
    progress,         \* history: values written to the progress bar
    notes,            \* history: st.success / st.error notifications
    status_text,      \* the status line
    generated_files,  \* paths collected for the download section
    j,                \* 1-based position in generated_files
    buttons,          \* download buttons offered: <<j, path>>
    unreadable,       \* artifacts whose open() failed
    exc               \* the exception that escaped main(), "none" if none

vars == <<uploaded_files, output_formats, use_ocr, pc, i, tmp_path, tmpFiles,
          outDirExists, outDirCreatable, fs, cmd, output_files, result, ret,
          invoked, outcomes, progress, notes, status_text, generated_files,
          j, buttons, unreadable, exc>>

----------------------------------------------------------------------------
\* Strings and paths

\* Original names of uploaded files (type=['pdf', 'docx'] at the uploader).
OrigNames == { <<"r", ".", "pdf">>, <<"r", "_", "s", ".", "pdf">> }

\* Random parts tempfile can put between "tmp" and the suffix: it draws from
\* lowercase letters, digits and "_".
RandomParts == { <<"x">>, <<"_">> }

\* Values the multiselect (options "md" and "json", default "md") can hold:
\* no option selected twice.
FormatChoices == { <<>>, <<"md">>, <<"json">>, <<"md", "json">> }

\* Position of the first c in s, 0 when there is none (str.find + 1).
Find(s, c) ==
    IF \E k \in 1..Len(s) : s[k] = c
    THEN CHOOSE k \in 1..Len(s) : s[k] = c /\ \A m \in 1..(k - 1) : s[m] # c
    ELSE 0

\* Position of the last c in s, 0 when there is none (str.rfind + 1).
RFind(s, c) ==
    IF \E k \in 1..Len(s) : s[k] = c
    THEN CHOOSE k \in 1..Len(s) : s[k] = c /\ \A m \in (k + 1)..Len(s) : s[m] # c
    ELSE 0

\* name.split('_', 1)[1] if '_' in name else name
AfterFirstUnderscore(name) ==
    LET k == Find(name, "_")
    IN  IF k = 0 THEN name ELSE SubSeq(name, k + 1, Len(name))

\* pathlib's PurePath.stem: the name without its last suffix; a leading or a
\* trailing dot is no suffix separator.
PathStem(name) ==
    LET k == RFind(name, ".")
    IN  IF 1 < k /\ k < Len(name) THEN SubSeq(name, 1, k - 1) ELSE name

\* original_stem as run_docling_command recovers it from the staging name.
OriginalStem(input_name) == PathStem(AfterFirstUnderscore(input_name))

\* f"{original_stem}.{fmt}"
OutputName(stem, fmt) == stem \o <<".", fmt>>

\* tempfile.NamedTemporaryFile(suffix=f"_{original_filename}"): the prefix
\* "tmp", the random part, the suffix.
StagingName(rand, original_filename) ==
    <<"tmp">> \o rand \o <<"_">> \o original_filename

----------------------------------------------------------------------------
\* The output directory

FileEntry == [kind |-> "file", children |-> {}]
DirEntry(children) == [kind |-> "dir", children |-> children]

Exists(f, name) == name \in DOMAIN f
IsDir(f, name) == name \in DOMAIN f /\ f[name].kind = "dir"

\* fnmatch of a name against "*.<fmt>"
MatchesFmt(name, fmt) ==
    Len(name) >= 2 /\ name[Len(name) - 1] = "." /\ name[Len(name)] = fmt

\* fnmatch of a name against "*.*"
MatchesAny(name) == \E k \in 1..Len(name) : name[k] = "."

\* The sequences that list every element of S once.
Orders(S) ==
    { s \in [1..Cardinality(S) -> S] : \A a, b \in DOMAIN s : a # b => s[a] # s[b] }

\* output_path.glob(f"*.{fmt}") in each order the directory can be listed in.
GlobFmt(f, name, fmt) ==
    Orders({ <<name, c>> : c \in { d \in f[name].children : MatchesFmt(d, fmt) } })

Put(f, name, entry) == [n \in DOMAIN f \cup {name} |-> IF n = name THEN entry ELSE f[n]]

\* The arguments that follow "--output" in an argument vector.
OutputArgs(c) == { c[k + 1] : k \in { m \in 1..(Len(c) - 1) : c[m] = <<"--output">> } }

\* What the external tool may do with one "--output" destination:
\*   "none"  it writes nothing there;
\*   "file"  it writes the destination as a file (inside it, when the
\*           destination is already a directory);
\*   "dir"   it takes the destination for a folder and writes two files of
\*           the destination's format into it.
ToolModes == {"none", "file", "dir"}

ToolWrites(name) ==
    { <<"a", ".", name[Len(name)]>>, <<"b", ".", name[Len(name)]>> }

ToolEntry(f, name, mode) ==
    CASE mode = "file" /\ ~Exists(f, name) -> FileEntry
      [] mode = "file" /\ IsDir(f, name) ->
            DirEntry(f[name].children \cup {<<"a", ".", name[Len(name)]>>})
      [] mode = "dir" /\ ~Exists(f, name) -> DirEntry(ToolWrites(name))
      [] mode = "dir" /\ IsDir(f, name) ->
            DirEntry(f[name].children \cup ToolWrites(name))
      [] OTHER -> f[name]

\* The output directory after the tool ran with argument vector c.
ToolEffect(f, c, mode) ==
    IF mode = "none" THEN f
    ELSE [ n \in DOMAIN f \cup OutputArgs(c)
             |-> IF n \in OutputArgs(c) THEN ToolEntry(f, n, mode) ELSE f[n] ]

Stdouts == {"", "converted"}
Stderrs == {"", "unsupported layout"}

\* What subprocess.run can do: raise (the process was never launched), or
\* return the exit status and the captured streams of a tool that ran.  A
\* tool that exits nonzero is taken to have written nothing.
ToolResults ==
    { [kind |-> "raised", returncode |-> -1, stdout |-> "", stderr |-> "",
       text |-> "No such file or directory: 'docling'", mode |-> "none"] }
    \cup
    { [kind |-> "exited", returncode |-> 1, stdout |-> so, stderr |-> se,
       text |-> "", mode |-> "none"] : so \in Stdouts, se \in Stderrs }
    \cup
    { [kind |-> "exited", returncode |-> 0, stdout |-> so, stderr |-> se,
       text |-> "", mode |-> m] :
        so \in Stdouts, se \in Stderrs, m \in ToolModes }

----------------------------------------------------------------------------
\* run_docling_command

\* The loop over output_formats: the lists output_files can end as, one for
\* each order glob can list the directories in.
RECURSIVE ProbeResults(_, _, _)
ProbeResults(stem, fmts, f) ==
    IF fmts = <<>> THEN { <<>> }
    ELSE LET output_path == OutputName(stem, Head(fmts))
             found == IF IsDir(f, output_path)
                      THEN GlobFmt(f, output_path, Head(fmts))
                      ELSE { << <<output_path>> >> }
         IN  { a \o b : a \in found, b \in ProbeResults(stem, Tail(fmts), f) }

\* The "--to"/"--output" pairs the loop appends to cmd.
RECURSIVE FormatArgs(_, _)
FormatArgs(stem, fmts) ==
    IF fmts = <<>> THEN <<>>
    ELSE << <<"--to">>, <<Head(fmts)>>, <<"--output">>, OutputName(stem, Head(fmts)) >>
         \o FormatArgs(stem, Tail(fmts))

OcrArgs(ocr) == IF ocr THEN <<>> ELSE << <<"--no-ocr">> >>

\* Classify with the exit status ignored: whatever ran counts as a success.
ClassifyIgnoringExit(r, files) ==
    IF r.kind = "raised"
    THEN [success |-> FALSE, message |-> r.text, files |-> <<>>]
    ELSE [success |-> TRUE, message |-> r.stdout, files |-> files]

\* The return statements of the try block.
Classify(r, files) ==
    IF r.kind = "raised"
    THEN [success |-> FALSE, message |-> r.text, files |-> <<>>]
    ELSE IF r.returncode = 0
         THEN [success |-> TRUE, message |-> r.stdout, files |-> files]
         ELSE [success |-> FALSE, message |-> r.stderr, files |-> <<>>]

NoResult == [kind |-> "none", returncode |-> -1, stdout |-> "", stderr |-> "",
             text |-> "", mode |-> "none"]
NoRet == [success |-> FALSE, message |-> "", files |-> <<>>]

----------------------------------------------------------------------------
\* main()

BatchSize == Len(uploaded_files)

\* ProgressValue computed from enumerate's i instead of i + 1.
ProgressValueOffByOne(k, n) == <<k - 1, n>>

\* progress = (i + 1) / len(uploaded_files), as the fraction <<num, den>>;
\* k is the file's 1-based position, enumerate's i + 1.
ProgressValue(k, n) == <<k, n>>

\* Unlinked with the unlink left out.
UnlinkedNothing(files, path) == files

\* os.unlink(tmp_path)
Unlinked(files, path) == files \ {path}

\* AfterFile with the loop left after its first pass.
AfterFileLeavesLoop(k, n) == [i |-> k, pc |-> "finish"]

\* The for loop's step after the file at position k of n: the next file, or
\* the statements after the loop.
AfterFile(k, n) ==
    IF k < n THEN [i |-> k + 1, pc |-> "stage"] ELSE [i |-> k, pc |-> "finish"]

Note(kind, file, path, text) ==
    [kind |-> kind, file |-> file, path |-> path, text |-> text]

\* The notifications of one file: one st.success per output file, or one
\* st.error carrying the message.
ReportNotes(k, r) ==
    IF r.success
    THEN [ m \in 1..Len(r.files) |-> Note("success", k, r.files[m], "") ]
    ELSE << Note("error", k, <<>>, r.message) >>

EmptyDir == [ n \in {} |-> FileEntry ]

\* Output directories a run can start with: none yet (and then mkdir either
\* can or cannot create it), or one left by earlier runs.
InitDirs ==
    { <<FALSE, c, EmptyDir>> : c \in BOOLEAN }
    \cup
    { <<TRUE, TRUE, f>> : f \in
        { EmptyDir,
          Put(EmptyDir, <<"r", ".", "md">>, DirEntry({})),
          Put(EmptyDir, <<"r", ".", "md">>,
              DirEntry({ <<"a", ".", "md">>, <<"b", ".", "md">> })) } }

Batches == UNION { [1..n -> OrigNames] : n \in 0..MaxBatch }

Init ==
    /\ uploaded_files \in Batches
    /\ output_formats \in FormatChoices
    /\ use_ocr \in BOOLEAN
    /\ \E d \in InitDirs :
          /\ outDirExists = d[1]
          /\ outDirCreatable = d[2]
          /\ fs = d[3]
    /\ pc = "click"
    /\ i = 0
    /\ tmp_path = <<>>
    /\ tmpFiles = {}
    /\ cmd = <<>>
    /\ output_files = <<>>
    /\ result = NoResult
    /\ ret = NoRet
    /\ invoked = <<>>
    /\ outcomes = <<>>
    /\ progress = <<>>
    /\ notes = <<>>
    /\ status_text = ""
    /\ generated_files = <<>>
    /\ j = 0
    /\ buttons = {}
    /\ unreadable = {}
    /\ exc = "none"

\* The button is pressed: the two validations, then the progress bar.
Click ==
    /\ pc = "click"
    /\ IF uploaded_files = <<>>
       THEN /\ notes' = Append(notes, Note("invalid", 0, <<>>, "no files"))
            /\ pc' = "end"
            /\ UNCHANGED <<progress, i>>
       ELSE IF output_formats = <<>>
       THEN /\ notes' = Append(notes, Note("invalid", 0, <<>>, "no format"))
            /\ pc' = "end"
            /\ UNCHANGED <<progress, i>>
       ELSE /\ progress' = << <<0, 1>> >>
            /\ pc' = "stage"
            /\ i' = 1
            /\ UNCHANGED notes
    /\ UNCHANGED <<uploaded_files, output_formats, use_ocr, tmp_path, tmpFiles,
                   outDirExists, outDirCreatable, fs, cmd, output_files, result,
                   ret, invoked, outcomes, status_text, generated_files, j,
                   buttons, unreadable, exc>>

\* The uploaded bytes are written to a fresh temporary file.
Stage ==
    /\ pc = "stage"
    /\ \E rand \in RandomParts :
          /\ StagingName(rand, uploaded_files[i]) \notin tmpFiles
          /\ tmp_path' = StagingName(rand, uploaded_files[i])
    /\ tmpFiles' = tmpFiles \cup {tmp_path'}
    /\ status_text' = "processing"
    /\ pc' = "mkdir"
    /\ UNCHANGED <<uploaded_files, output_formats, use_ocr, i, outDirExists,
                   outDirCreatable, fs, cmd, output_files, result, ret, invoked,
                   outcomes, progress, notes, generated_files, j, buttons,
                   unreadable, exc>>

\* run_docling_command up to get_default_output_dir(): mkdir(exist_ok=True)
\* returns when the directory exists or can be created, and raises otherwise.
GetDefaultOutputDir ==
    /\ pc = "mkdir"
    /\ \/ /\ outDirExists \/ outDirCreatable
          /\ outDirExists' = TRUE
          /\ cmd' = << <<"docling">>, tmp_path >>
          /\ output_files' = <<>>
          /\ pc' = "probe"
          /\ exc' = exc
       \/ /\ ~outDirExists /\ ~outDirCreatable
          /\ exc' = "mkdir"
          /\ pc' = "crashed"
          /\ UNCHANGED <<outDirExists, cmd, output_files>>
    /\ UNCHANGED <<uploaded_files, output_formats, use_ocr, i, tmp_path, tmpFiles,
                   outDirCreatable, fs, result, ret, invoked, outcomes, progress,
                   notes, status_text, generated_files, j, buttons, unreadable>>

\* The loop over the formats and the OCR option; is_dir() and glob() can
\* raise (an OSError other than "not found"), and nothing catches it.
Probe ==
    /\ pc = "probe"
    /\ \/ /\ output_files' \in
                ProbeResults(OriginalStem(tmp_path), output_formats, fs)
          /\ cmd' = cmd \o FormatArgs(OriginalStem(tmp_path), output_formats)
                        \o OcrArgs(use_ocr)
          /\ pc' = "run"
          /\ exc' = exc
       \/ /\ exc' = "probe"
          /\ pc' = "crashed"
          /\ UNCHANGED <<cmd, output_files>>
    /\ UNCHANGED <<uploaded_files, output_formats, use_ocr, i, tmp_path, tmpFiles,
                   outDirExists, outDirCreatable, fs, result, ret, invoked,
                   outcomes, progress, notes, status_text, generated_files, j,
                   buttons, unreadable>>

\* subprocess.run and the return statement it leads to.
RunTool ==
    /\ pc = "run"
    /\ \E r \in ToolResults :
          /\ result' = r
          /\ fs' = ToolEffect(fs, cmd, r.mode)
          /\ ret' = Classify(r, output_files)
    /\ invoked' = Append(invoked, i)
    /\ outcomes' = Append(outcomes, [file |-> i, success |-> ret'.success])
    /\ pc' = "unlink"
    /\ UNCHANGED <<uploaded_files, output_formats, use_ocr, i, tmp_path, tmpFiles,
                   outDirExists, outDirCreatable, cmd, output_files, progress,
                   notes, status_text, generated_files, j, buttons, unreadable,
                   exc>>

\* os.unlink(tmp_path)
Unlink ==
    /\ pc = "unlink"
    /\ tmpFiles' = Unlinked(tmpFiles, tmp_path)
    /\ pc' = "report"
    /\ UNCHANGED <<uploaded_files, output_formats, use_ocr, i, tmp_path,
                   outDirExists, outDirCreatable, fs, cmd, output_files, result,
                   ret, invoked, outcomes, progress, notes, status_text,
                   generated_files, j, buttons, unreadable, exc>>

\* progress_bar.progress(progress), then the result is shown and the loop
\* goes on to the next file.  The locals of the iteration are dead from here
\* on and are reset.
Report ==
    /\ pc = "report"
    /\ progress' = Append(progress, ProgressValue(i, BatchSize))
    /\ notes' = notes \o ReportNotes(i, ret)
    /\ generated_files' = generated_files \o (IF ret.success THEN ret.files ELSE <<>>)
    /\ i' = AfterFile(i, BatchSize).i
    /\ pc' = AfterFile(i, BatchSize).pc
    /\ tmp_path' = <<>>
    /\ cmd' = <<>>
    /\ output_files' = <<>>
    /\ result' = NoResult
    /\ ret' = NoRet
    /\ UNCHANGED <<uploaded_files, output_formats, use_ocr, tmpFiles,
                   outDirExists, outDirCreatable, fs, invoked, outcomes,
                   status_text, buttons, unreadable, j, exc>>

\* After the loop: the status line and progress_bar.progress(1.0).
Finish ==
    /\ pc = "finish"
    /\ status_text' = "all files processed"
    /\ progress' = Append(progress, <<1, 1>>)
    /\ IF generated_files # <<>>
       THEN /\ j' = 1
            /\ pc' = "download"
       ELSE /\ j' = j
            /\ pc' = "end"
    /\ UNCHANGED <<uploaded_files, output_formats, use_ocr, i, tmp_path, tmpFiles,
                   outDirExists, outDirCreatable, fs, cmd, output_files, result,
                   ret, invoked, outcomes, notes, generated_files, buttons,
                   unreadable, exc>>

----------------------------------------------------------------------------
\* The download section

\* The path names a file that is there to be opened.
IsFile(f, path) ==
    IF Len(path) = 1
    THEN Exists(f, path[1]) /\ f[path[1]].kind = "file"
    ELSE IsDir(f, path[1]) /\ path[2] \in f[path[1]].children

\* file_path.glob("*.*")
GlobAny(f, name) == { <<name, c>> : c \in { d \in f[name].children : MatchesAny(d) } }

\* open() of this path may fail now: it failed before, or no artifact has
\* failed yet (one artifact of a run is unreadable at most).
MayFail(path) == path \in unreadable \/ unreadable = {}

ReadError(k, path) == Note("read_error", k, path, "cannot read")

\* One pass of the loop over generated_files, with its try/except.
Download ==
    /\ pc = "download"
    /\ LET file_path == generated_files[j]
       IN  IF Len(file_path) = 1 /\ IsDir(fs, file_path[1])
           THEN \* every file of the directory is read, or the first open()
                \* that fails ends the inner loop
                \/ /\ GlobAny(fs, file_path[1]) \cap unreadable = {}
                   /\ buttons' = buttons \cup
                          { <<j, p>> : p \in GlobAny(fs, file_path[1]) }
                   /\ UNCHANGED <<notes, unreadable>>
                \/ \E bad \in GlobAny(fs, file_path[1]) :
                   \E before \in SUBSET (GlobAny(fs, file_path[1]) \ {bad}) :
                      /\ MayFail(bad)
                      /\ before \cap unreadable = {}
                      /\ buttons' = buttons \cup { <<j, p>> : p \in before }
                      /\ unreadable' = unreadable \cup {bad}
                      /\ notes' = Append(notes, ReadError(j, file_path))
           ELSE \/ /\ IsFile(fs, file_path)
                   /\ file_path \notin unreadable
                   /\ buttons' = buttons \cup { <<j, file_path>> }
                   /\ UNCHANGED <<notes, unreadable>>
                \/ /\ IsFile(fs, file_path)
                   /\ MayFail(file_path)
                   /\ unreadable' = unreadable \cup {file_path}
                   /\ notes' = Append(notes, ReadError(j, file_path))
                   /\ UNCHANGED buttons
                \/ /\ ~IsFile(fs, file_path)
                   /\ notes' = Append(notes, ReadError(j, file_path))
                   /\ UNCHANGED <<buttons, unreadable>>
    /\ IF j < Len(generated_files)
       THEN /\ j' = j + 1
            /\ pc' = "download"
       ELSE /\ j' = j
            /\ pc' = "end"
    /\ UNCHANGED <<uploaded_files, output_formats, use_ocr, i, tmp_path, tmpFiles,
                   outDirExists, outDirCreatable, fs, cmd, output_files, result,
                   ret, invoked, outcomes, progress, status_text,
                   generated_files, exc>>

Next ==
    \/ Click
    \/ Stage
    \/ GetDefaultOutputDir
    \/ Probe
    \/ RunTool
    \/ Unlink
    \/ Report
    \/ Finish
    \/ Download

Spec == Init /\ [][Next]_vars

----------------------------------------------------------------------------
\* Vocabulary of the properties

\* The loop is past the file at position k: its progress value is written
\* and its result shown.
Reported(k) == k < i \/ (k = i /\ pc \in {"finish", "download", "end"})

\* The loop over the batch has run to its end.
Done == pc \in {"download", "end"} /\ progress # <<>>

NotesOf(k, kind) ==
    { m \in DOMAIN notes : notes[m].kind = kind /\ notes[m].file = k }

RatEq(a, b) == a[1] * b[2] = b[1] * a[2]
RatLeq(a, b) == a[1] * b[2] <= b[1] * a[2]

\* run_docling_command holds a complete argument vector.
CmdBuilt == pc \in {"run", "unlink", "report"}

\* subprocess.run has just returned for the file at position i.
Returned == pc = "unlink"

----------------------------------------------------------------------------
\* C1: every expected output path is named after the stem of the original
\* uploaded file name, whatever staging name the file was given.
C1_StemFromOriginalName ==
    CmdBuilt =>
        OutputArgs(cmd) =
            { OutputName(PathStem(uploaded_files[i]), output_formats[m]) :
                m \in DOMAIN output_formats }

\* C2: once the processing of a file has ended, normally or by an exception,
\* its staging file is gone: between files, after the loop and after a crash
\* no staging file exists.
C2_StagingRemovedOnEveryPath ==
    pc \in {"stage", "report", "finish", "download", "end", "crashed"} =>
        tmpFiles = {}

\* C3: when the tool has returned with exit 0 and an expected output path of
\* format md is a directory holding a.md and b.md, both files are in the
\* returned list and the directory itself is not.
C3_DirectoryReconciled ==
    (Returned /\ result.kind = "exited" /\ result.returncode = 0) =>
        \A p \in OutputArgs(cmd) :
            ( /\ MatchesFmt(p, "md")
              /\ IsDir(fs, p)
              /\ { <<"a", ".", "md">>, <<"b", ".", "md">> } \subseteq fs[p].children )
            => /\ \E m \in DOMAIN ret.files : ret.files[m] = <<p, <<"a", ".", "md">> >>
               /\ \E m \in DOMAIN ret.files : ret.files[m] = <<p, <<"b", ".", "md">> >>
               /\ \A m \in DOMAIN ret.files : ret.files[m] # <<p>>

InvocationFailed == Returned /\ ~ret.success

\* A file is staged and about to be converted, and every file before it has
\* had its invocation.
NextFileStaged ==
    pc = "mkdir" /\ tmpFiles = {tmp_path} /\ Len(outcomes) = i - 1

\* The failures on display are those of the files whose invocation failed, one
\* each; the loop is past a file only to go on with the next one or, after the
\* last one, with the statements after the loop; an exception that escapes
\* main() does so before the current file's invocation, never because of an
\* invocation's outcome.
C5_Isolation ==
    /\ \A k \in 1..Len(outcomes) :
          (Reported(k) /\ ~outcomes[k].success) =>
              /\ Cardinality(NotesOf(k, "error")) = 1
              /\ NotesOf(k, "success") = {}
    /\ \A m \in DOMAIN notes :
          notes[m].kind = "error" =>
              /\ notes[m].file \in 1..Len(outcomes)
              /\ ~outcomes[notes[m].file].success
              /\ NotesOf(notes[m].file, "error") = {m}
    /\ \A k \in 1..Len(outcomes) :
          Len(progress) > k =>
              IF k < BatchSize THEN i > k ELSE pc \in {"finish", "download", "end"}
    /\ pc = "crashed" => Len(outcomes) = i - 1
    /\ Done => Len(outcomes) = BatchSize

\* The steps main() takes after a failed invocation: the staging file is
\* removed and the failure reported; from there the loop stages the next file
\* or, after the last file, writes "all files processed".
C5_Continues ==
    /\ InvocationFailed => (pc' = "report" /\ i' = i /\ ~ret'.success)
    /\ (pc = "report" /\ ~ret.success) =>
          IF i < BatchSize
          THEN pc' = "stage" /\ i' = i + 1
          ELSE pc' = "finish" /\ i' = i
    /\ pc = "stage" => NextFileStaged'
    /\ pc = "finish" =>
          (pc' \in {"download", "end"} /\ status_text' = "all files processed")

\* Between a returned invocation and the end of the run main() always has a
\* step to take, except where an exception has escaped it.
C5_NeverStuck ==
    pc \in {"unlink", "report", "stage", "finish", "download"} =>
        ENABLED (Unlink \/ Report \/ Stage \/ Finish \/ Download)

\* C5: a failed invocation (nonzero exit, or an exception from the launch)
\* is shown as one failure notification of that file and of no other, and it
\* never ends the batch: the steps that follow it stage the next file or, for
\* the last file, end the run with "all files processed" on the status line.
C5_FailureIsolated ==
    /\ [](C5_Isolation /\ C5_NeverStuck)
    /\ [][C5_Continues]_vars

\* The first of two files failed, the second one is staged and the first's
\* failure is on display.
C5_Witness ==
    /\ BatchSize = 2
    /\ pc = "mkdir" /\ i = 2
    /\ ~outcomes[1].success
    /\ Cardinality(NotesOf(1, "error")) = 1

\* C6: the values written to the progress bar never decrease, the value after
\* the file at index k - 1 is k / n whatever its outcome, and the value after
\* the last file is 1.
C6_ProgressMonotone ==
    /\ \A a, b \in DOMAIN progress : a <= b => RatLeq(progress[a], progress[b])
    /\ \A k \in 1..BatchSize :
          Reported(k) =>
              /\ Len(progress) > k
              /\ RatEq(progress[k + 1], <<k, BatchSize>>)
    /\ Reported(BatchSize) /\ BatchSize >= 1 =>
          RatEq(progress[BatchSize + 1], <<1, 1>>)
    /\ Done => RatEq(progress[Len(progress)], <<1, 1>>)

\* A batch of two files that both failed has run to its end at progress 1.
C6_Witness ==
    /\ Done
    /\ BatchSize = 2
    /\ \A k \in 1..2 : ~outcomes[k].success
    /\ progress = << <<0, 1>>, <<1, 2>>, <<2, 2>>, <<1, 1>> >>

\* C7: when the output directory cannot be created, the user gets a
\* notification of that error for the file, the tool is not invoked for it,
\* and no exception escapes main().
C7_OutputDirErrorReported ==
    (~outDirExists /\ ~outDirCreatable /\ pc \notin {"click", "stage", "mkdir"}
       /\ progress # <<>>) =>
        /\ pc # "crashed"
        /\ exc = "none"
        /\ \A m \in DOMAIN invoked : invoked[m] # i
        /\ NotesOf(i, "error") # {}

\* The artifacts the download section reaches through entry k of
\* generated_files.
ArtifactsOf(k) ==
    IF Len(generated_files[k]) = 1 /\ IsDir(fs, generated_files[k][1])
    THEN GlobAny(fs, generated_files[k][1])
    ELSE { generated_files[k] }

\* C8: when the download section has ended, every artifact that could be read
\* has its download button, whichever other artifact failed to be read.
C8_ReadFailureIsolated ==
    pc = "end" =>
        \A k \in DOMAIN generated_files :
            \A p \in ArtifactsOf(k) :
                (IsFile(fs, p) /\ p \notin unreadable) => <<k, p>> \in buttons

\* C9: the invocations are those of the files at positions 1, 2, ... in
\* that order, one each, with one outcome each; a file is staged only when
\* every earlier invocation has returned and no staging file exists, and the
\* only staging file that ever exists is the one of the file in hand.
C9_OneInvocationSequential ==
    /\ Cardinality(tmpFiles) <= 1
    /\ invoked = [ k \in 1..Len(invoked) |-> k ]
    /\ Len(outcomes) = Len(invoked)
    /\ \A k \in DOMAIN outcomes : outcomes[k].file = k
    /\ pc = "stage" => (tmpFiles = {} /\ Len(invoked) = i - 1)
    /\ pc \in {"mkdir", "probe", "run"} =>
          (tmpFiles = {tmp_path} /\ Len(invoked) = i - 1)
    /\ pc = "unlink" => (tmpFiles = {tmp_path} /\ Len(invoked) = i)
    /\ Done => (Len(invoked) = BatchSize /\ tmpFiles = {})

\* The second file's staging file is the only one while the tool runs on it,
\* after the first file's invocation.
C9_Witness ==
    /\ pc = "run" /\ i = 2
    /\ invoked = <<1>>
    /\ tmpFiles = {tmp_path}

\* C10: every reported file has a notification: at least one success
\* notification when its invocation succeeded, exactly one failure
\* notification when it failed.
C10_EveryFileNotified ==
    \A k \in 1..Len(outcomes) :
        Reported(k) =>
            IF outcomes[k].success
            THEN NotesOf(k, "success") # {}
            ELSE Cardinality(NotesOf(k, "error")) = 1

====
